---- MODULE Spec2Model ----
(***************************************************************************)
(* Over Protocol Python service (python-services/main.py).                 *)
(*                                                                         *)
(* A FastAPI application with five handlers that forward read-only         *)
(* queries to a remote chain node through one module-level web3 handle.    *)
(* The handlers are `async def` functions that contain no `await`: the     *)
(* web3 calls are synchronous, so a handler holds the (single) uvicorn     *)
(* event loop from its first statement to its response.  The model keeps   *)
(* one frame, `cur`, for the handler that holds the loop, and splits a     *)
(* handler at its remote calls so that the remote node can change, fail    *)
(* or stay silent between them.                                            *)
(***************************************************************************)
EXTENDS Integers, Sequences, FiniteSets, TLC

\* ------------------------------------------------------------------------
\* Bounds of the model
\* ------------------------------------------------------------------------
NumReqs == 2            \* request slots (concurrent HTTP connections)
MaxChain == 3           \* blocks the remote chain grows to

Reqs == 1..NumReqs

\* ------------------------------------------------------------------------
\* Characters and strings.  Request strings are sequences of one-character
\* strings, so that validation and parsing can look at their characters.
\* ------------------------------------------------------------------------
Digits == {"0","1","2","3","4","5","6","7","8","9"}
LowerHex == {"a","b","c","d","e","f"}
UpperHex == {"A","B","C","D","E","F"}
HexChars == Digits \cup LowerHex \cup UpperHex

DigitVal(c) ==
  CASE c = "0" -> 0 [] c = "1" -> 1 [] c = "2" -> 2 [] c = "3" -> 3
    [] c = "4" -> 4 [] c = "5" -> 5 [] c = "6" -> 6 [] c = "7" -> 7
    [] c = "8" -> 8 [] c = "9" -> 9

AddrLower == <<"0","x","5","a","a","e","b","6","0","5","3","f","3","e","9","4","c","9","b","9","a","0","9","f","3","3","6","6","9","4","3","5","e","7","e","f","1","b","e","a","e","d">>
AddrChecksum == <<"0","x","5","a","A","e","b","6","0","5","3","F","3","E","9","4","C","9","b","9","A","0","9","f","3","3","6","6","9","4","3","5","E","7","E","f","1","B","e","A","e","d">>
AddrBadChecksum == <<"0","x","5","A","A","e","b","6","0","5","3","F","3","E","9","4","C","9","b","9","A","0","9","f","3","3","6","6","9","4","3","5","E","7","E","f","1","B","e","A","e","d">>
AddrShort == <<"0","x","5","a","a","e">>

\* the address strings a BalanceRequest carries, and those the from_address
\* and the to_address of a TransactionRequest carry
Addresses == {AddrLower, AddrChecksum, AddrBadChecksum, AddrShort}
FromAddresses == {AddrChecksum, AddrBadChecksum, AddrShort}
ToAddresses == {AddrLower, AddrShort}

Amt5Wei == <<"0",".","0","0","0","0","0","0","0","0","0","0","0","0","0","0","0","0","0","5">>
AmtSubWei == <<"0",".","0","0","0","0","0","0","0","0","0","0","0","0","0","0","0","0","0","1","9">>
AmtNeg == <<"-","0",".","0","0","0","0","0","0","0","0","0","0","0","0","0","0","0","0","0","1">>
AmtWord == <<"a","b","c">>

\* the amount strings a TransactionRequest carries.  The well-formed ones
\* are a few wei, so that the wei integers stay inside TLC's integers.
Amounts == {Amt5Wei, AmtSubWei, AmtNeg, AmtWord}

NoString == <<>>

\* ------------------------------------------------------------------------
\* w3.is_address (eth_utils): a hex address, and when its letters are of
\* mixed case its EIP-55 checksum must be right.
\* ------------------------------------------------------------------------
remove_0x_prefix(s) ==
  IF Len(s) >= 2 /\ s[1] = "0" /\ s[2] \in {"x", "X"} THEN SubSeq(s, 3, Len(s)) ELSE s

is_hex_address(s) ==
  LET u == remove_0x_prefix(s)
  IN  Len(u) = 40 /\ \A i \in 1..Len(u) : u[i] \in HexChars

is_checksum_formatted(s) ==
  LET u == remove_0x_prefix(s)
  IN  /\ \E i \in 1..Len(u) : u[i] \in LowerHex
      /\ \E i \in 1..Len(u) : u[i] \in UpperHex

\* keccak-256 of the lower-case address decides the case of every letter;
\* the table holds the addresses whose checksum is right (EIP-55 vector).
is_checksum_address(s) == s \in {AddrChecksum}

is_address(s) ==
  IF is_hex_address(s)
    THEN (IF is_checksum_formatted(s) THEN is_checksum_address(s) ELSE TRUE)
    ELSE FALSE

\* ------------------------------------------------------------------------
\* decimal.Decimal(str): [sign] digits [. digits], at least one digit.
\* The value is coef / 10^exp.
\* ------------------------------------------------------------------------
RECURSIVE DigitsValue(_)
DigitsValue(s) ==
  IF Len(s) = 0 THEN 0
  ELSE DigitsValue(SubSeq(s, 1, Len(s) - 1)) * 10 + DigitVal(s[Len(s)])

Unsigned(s) == IF Len(s) >= 1 /\ s[1] \in {"+", "-"} THEN SubSeq(s, 2, Len(s)) ELSE s

DotPositions(s) == {i \in 1..Len(s) : s[i] = "."}

Decimal(s) ==
  LET u    == Unsigned(s)
      dots == DotPositions(u)
      ds   == SelectSeq(u, LAMBDA c : c \in Digits)
      ok   == /\ \A i \in 1..Len(u) : u[i] \in Digits \cup {"."}
              /\ Cardinality(dots) <= 1
              /\ Len(ds) >= 1
  IN  IF ~ok
        THEN [ok |-> FALSE, neg |-> FALSE, coef |-> 0, exp |-> 0]
        ELSE [ok   |-> TRUE,
              neg  |-> Len(s) >= 1 /\ s[1] = "-",
              coef |-> DigitsValue(ds),
              exp  |-> IF dots = {} THEN 0 ELSE Len(u) - (CHOOSE i \in dots : TRUE)]

\* decimal places of the units the handlers name
EtherDecimals == 18
GweiDecimals == 9

UnitDecimals(unit) == IF unit = "ether" THEN EtherDecimals ELSE GweiDecimals

\* w3.to_wei(number: str, unit): Decimal(number) * 10^decimals, truncated
\* to an integer; raises on an unparseable string and on a negative value.
to_wei(s, unit) ==
  LET d == Decimal(s)
      n == UnitDecimals(unit)
  IN  IF ~d.ok
        THEN [ok |-> FALSE, value |-> 0, error |-> "[<class 'decimal.ConversionSyntax'>]"]
      ELSE IF d.coef = 0
        THEN [ok |-> TRUE, value |-> 0, error |-> ""]
      ELSE IF d.neg
        THEN [ok |-> FALSE, value |-> 0,
              error |-> "Resulting wei value must be between 1 and 2**256 - 1"]
      ELSE [ok |-> TRUE,
            value |-> IF d.exp <= n THEN d.coef * 10^(n - d.exp)
                                    ELSE d.coef \div 10^(d.exp - n),
            error |-> ""]

\* w3.from_wei(number, unit): the exact decimal number / 10^decimals, kept
\* as coefficient and exponent; from_wei(0) is the integer 0.
from_wei(number, unit) ==
  IF number = 0 THEN [coef |-> 0, exp |-> 0]
  ELSE [coef |-> number, exp |-> UnitDecimals(unit)]

\* difference of two decimals of one unit
DecSub(a, b) ==
  IF b.coef = 0 THEN a
  ELSE IF a.coef = 0 THEN [coef |-> 0 - b.coef, exp |-> b.exp]
  ELSE IF a.coef = b.coef /\ a.exp = b.exp THEN [coef |-> 0, exp |-> 0]
  ELSE [coef |-> a.coef - b.coef, exp |-> a.exp]

\* str() of an int and of a Decimal (scientific form of small values)
str_int(n) == ToString(n)
str_decimal(d) == IF d.exp = 0 THEN ToString(d.coef)
                  ELSE ToString(d.coef) \o "E-" \o ToString(d.exp)

\* ------------------------------------------------------------------------
\* State
\* ------------------------------------------------------------------------
VARIABLES
  w3,                 \* the module-level handle: "client", or "None"
  OVER_PROTOCOL_RPC,  \* module global: the RPC URL
  CHAIN_ID,           \* module global: the chain id
  status,             \* request slot -> "idle" | "arrived" | "running"
  cur,                \* frame of the handler that holds (or last held) the event loop
  chain               \* the remote node's chain: block number k is chain[k + 1]

vars == <<w3, OVER_PROTOCOL_RPC, CHAIN_ID, status, cur, chain>>

Ops == {"health_check", "get_network_info", "check_balance", "estimate_gas",
        "get_network_analytics"}

\* what the remote node may answer
GasPrices == {0, 3}
GasEstimates == {21, 40}
Balances == {0, 7}
\* the blocks the node may produce: seconds after the parent, gas limit, gas used
BlockKinds == {[dt |-> 12, gasLimit |-> 0, gasUsed |-> 0],
               [dt |-> 15, gasLimit |-> 30, gasUsed |-> 12]}
RpcErrors == {"Connection aborted", "execution reverted"}

Blocks(number, parent_timestamp) ==
  {[number |-> number, timestamp |-> parent_timestamp + k.dt, gasLimit |-> k.gasLimit,
    gasUsed |-> k.gasUsed,
    transactions |-> IF k.gasUsed = 0 THEN <<>> ELSE <<"0xtx">>] : k \in BlockKinds}

NoBlock == [number |-> 0 - 1, timestamp |-> 0, gasLimit |-> 0, gasUsed |-> 0,
            transactions |-> <<>>]

NoBody == [address |-> NoString, from_address |-> NoString,
           to_address |-> NoString, amount |-> NoString]

BalanceRequest == {[NoBody EXCEPT !.address = a] : a \in Addresses}

TransactionRequest ==
  {[NoBody EXCEPT !.from_address = f, !.to_address = t, !.amount = m] :
      f \in FromAddresses, t \in ToAddresses, m \in Amounts}

Bodies(op) ==
  IF op = "check_balance" THEN BalanceRequest
  ELSE IF op = "estimate_gas" THEN TransactionRequest
  ELSE {NoBody}

NoContent == [none |-> TRUE]
NoResponse == [status |-> 0, detail |-> "", content |-> NoContent]

\* a frame before its handler's first statement
Fresh(r, op, body) ==
  [id |-> r, op |-> op, body |-> body, pc |-> "entry", calls |-> <<>>,
   probe |-> "unasked", latest_block_number |-> 0 - 1, gas_price |-> 0 - 1, balance_wei |-> 0 - 1,
   amount_wei |-> 0 - 1, gas_estimate |-> 0 - 1,
   latest_block |-> NoBlock, prev_block |-> NoBlock, block_time |-> 0,
   response |-> NoResponse]

NoFrame == [Fresh(0, "none", NoBody) EXCEPT !.pc = "done"]

\* ------------------------------------------------------------------------
\* Remote calls of a handler.  A call is logged when it is issued and its
\* outcome ("pending", then "ok" | "raise" | "hang") when it is known.
\* ------------------------------------------------------------------------
Call(method, arg) == [method |-> method, arg |-> arg, outcome |-> "pending", error |-> ""]

is_connected_call == Call("is_connected", <<>>)
block_number_call == Call("eth.block_number", <<>>)
gas_price_call == Call("eth.gas_price", <<>>)
get_balance_call(address) == Call("eth.get_balance", address)
get_block_call(block_identifier) == Call("eth.get_block", <<block_identifier>>)
\* mutant: the transaction is submitted instead of estimated
send_transaction_call(from, to, value) ==
  Call("eth.send_transaction", [from |-> from, to |-> to, value |-> value])

estimate_gas_call(from, to, value) ==
  Call("eth.estimate_gas", [from |-> from, to |-> to, value |-> value])

Issue(f, site, call) == [f EXCEPT !.pc = site, !.calls = Append(@, call)]

Settle(f, outcome, error) ==
  [f EXCEPT !.calls[Len(f.calls)].outcome = outcome,
            !.calls[Len(f.calls)].error = error]

Pending(f) == Len(f.calls) > 0 /\ f.calls[Len(f.calls)].outcome = "pending"

DataSites == {"block_number", "gas_price", "get_balance", "get_block_latest",
              "get_block_prev", "estimate_gas"}

\* ------------------------------------------------------------------------
\* Responses
\* ------------------------------------------------------------------------
HTTPException(status_code, detail) ==
  [status |-> status_code, detail |-> detail, content |-> NoContent]

\* str(HTTPException): "<status_code>: <detail>"
str_http_exception(e) == ToString(e.status) \o ": " \o e.detail

Ok(content) == [status |-> 200, detail |-> "", content |-> content]

Respond(f, response) == [f EXCEPT !.pc = "done", !.response = response]

\* `except Exception as e: raise HTTPException(status_code=500, detail=str(e))`
Except500(f, message) == Respond(f, HTTPException(500, message))

\* mutant: a failed call is issued once more before the failure is reported
OnRaise_retry(f, message) ==
  IF \A i \in 1..Len(f.calls) : f.calls[i].outcome # "raise"
    THEN Issue(Settle(f, "raise", message), f.pc,
               Call(f.calls[Len(f.calls)].method, f.calls[Len(f.calls)].arg))
    ELSE Except500(Settle(f, "raise", message), message)

\* a remote data call raised inside the handler's try block
OnRaise(f, message) == Except500(Settle(f, "raise", message), message)

\* ------------------------------------------------------------------------
\* The handlers, as the statements they run between two remote calls
\* ------------------------------------------------------------------------
\* mutant: health_check guarded like the other handlers
health_check_guarded(f, connected) ==
  IF connected
    THEN Respond(f, Ok([status |-> "healthy", over_protocol_connected |-> TRUE,
                        chain_id |-> CHAIN_ID]))
    ELSE Respond(f, HTTPException(503, "Not connected to Over Protocol"))

\* health_check: the returned dict
health_check_result(f, connected) ==
  Respond(f, Ok([status |-> "healthy", over_protocol_connected |-> connected,
                 chain_id |-> CHAIN_ID]))

not_connected(f) == Respond(f, HTTPException(503, "Not connected to Over Protocol"))

get_network_info_body(f) == Issue(f, "block_number", block_number_call)

get_network_info_result(f) ==
  Respond(f, Ok([chain_id |-> CHAIN_ID, latest_block |-> f.latest_block_number,
                 gas_price_gwei |-> from_wei(f.gas_price, "gwei"),
                 rpc_url |-> OVER_PROTOCOL_RPC]))

\* check_balance: the try block up to its first remote call.  The
\* HTTPException(400) is raised inside the try block and HTTPException is an
\* Exception, so the handler's own `except Exception` catches it.
check_balance_body(f) ==
  IF ~is_address(f.body.address)
    THEN Except500(f, str_http_exception(HTTPException(400, "Invalid address format")))
    ELSE Issue(f, "get_balance", get_balance_call(f.body.address))

check_balance_result(f, block) ==
  Respond(f, Ok([address |-> f.body.address,
                 balance_over |-> str_decimal(from_wei(f.balance_wei, "ether")),
                 balance_wei |-> str_int(f.balance_wei),
                 timestamp |-> block.timestamp]))

\* estimate_gas: the try block up to its first remote call
estimate_gas_body(f) ==
  IF ~is_address(f.body.from_address) \/ ~is_address(f.body.to_address)
    THEN Except500(f, str_http_exception(HTTPException(400, "Invalid address format")))
    ELSE LET amount_wei == to_wei(f.body.amount, "ether")
         IN  IF ~amount_wei.ok
               THEN Except500(f, amount_wei.error)
               ELSE Issue([f EXCEPT !.amount_wei = amount_wei.value], "estimate_gas",
                          estimate_gas_call(f.body.from_address, f.body.to_address,
                                            amount_wei.value))

\* mutant: the total leaves the transferred amount out
estimate_gas_result_fee_only(f) ==
  LET total_cost_wei == f.gas_estimate * f.gas_price
  IN  Respond(f, Ok([gas_estimate |-> f.gas_estimate,
                     gas_price_gwei |-> from_wei(f.gas_price, "gwei"),
                     total_cost_over |-> from_wei(total_cost_wei, "ether"),
                     transaction_cost_over |->
                        from_wei(f.gas_estimate * f.gas_price, "ether")]))

estimate_gas_result(f) ==
  LET total_cost_wei == f.gas_estimate * f.gas_price + f.amount_wei
  IN  Respond(f, Ok([gas_estimate |-> f.gas_estimate,
                     gas_price_gwei |-> from_wei(f.gas_price, "gwei"),
                     total_cost_over |-> from_wei(total_cost_wei, "ether"),
                     transaction_cost_over |->
                        from_wei(f.gas_estimate * f.gas_price, "ether")]))

get_network_analytics_body(f) == Issue(f, "get_block_latest", get_block_call("latest"))

\* mutant: the latest block's own number is asked again
PrevBlockNumber_same(latest_block) == latest_block.number

\* the number get_network_analytics asks the preceding block by
PrevBlockNumber(latest_block) == latest_block.number - 1

\* mutant: a zero gas limit is reported as 0 percent
get_network_analytics_result_guarded(f) ==
  Respond(f, Ok([latest_block_number |-> f.latest_block.number,
                 latest_block_timestamp |-> f.latest_block.timestamp,
                 latest_block_transactions |-> Len(f.latest_block.transactions),
                 average_block_time_seconds |-> f.block_time,
                 gas_limit |-> f.latest_block.gasLimit,
                 gas_used |-> f.latest_block.gasUsed,
                 gas_utilization_percent |->
                    IF f.latest_block.gasLimit = 0 THEN [num |-> 0, den |-> 1]
                    ELSE [num |-> f.latest_block.gasUsed * 100,
                          den |-> f.latest_block.gasLimit]]))

\* the returned dict; the true division raises ZeroDivisionError on gasLimit 0.
\* The float (gasUsed / gasLimit) * 100 is kept as the fraction num / den.
get_network_analytics_result(f) ==
  IF f.latest_block.gasLimit = 0
    THEN Except500(f, "division by zero")
    ELSE Respond(f, Ok([latest_block_number |-> f.latest_block.number,
                        latest_block_timestamp |-> f.latest_block.timestamp,
                        latest_block_transactions |-> Len(f.latest_block.transactions),
                        average_block_time_seconds |-> f.block_time,
                        gas_limit |-> f.latest_block.gasLimit,
                        gas_used |-> f.latest_block.gasUsed,
                        gas_utilization_percent |->
                           [num |-> f.latest_block.gasUsed * 100,
                            den |-> f.latest_block.gasLimit]]))

Body(f) ==
  CASE f.op = "get_network_info" -> get_network_info_body(f)
    [] f.op = "check_balance" -> check_balance_body(f)
    [] f.op = "estimate_gas" -> estimate_gas_body(f)
    [] f.op = "get_network_analytics" -> get_network_analytics_body(f)

\* mutant: the probe's answer is ignored
Guard_unprobed(f, connected) == Body(f)

\* `if not w3 or not w3.is_connected(): raise HTTPException(503)`, once the
\* probe has answered
Guard(f, connected) == IF ~connected THEN not_connected(f) ELSE Body(f)

\* the first statement of a handler: `w3` is tested before it is probed
Enter(f) ==
  IF w3 = "None"
    THEN (IF f.op = "health_check" THEN health_check_result(f, FALSE)
                                   ELSE not_connected(f))
    ELSE Issue(f, "is_connected", is_connected_call)

AfterProbe(f, connected) ==
  IF f.op = "health_check" THEN health_check_result(f, connected)
                           ELSE Guard(f, connected)

\* after w3.eth.gas_price
AfterGasPrice(f) ==
  IF f.op = "get_network_info" THEN get_network_info_result(f)
                               ELSE estimate_gas_result(f)

\* after w3.eth.get_block('latest')
AfterLatestBlock(f, block) ==
  IF f.op = "check_balance" THEN check_balance_result(f, block)
  ELSE LET g == [f EXCEPT !.latest_block = block]
       IN  IF block.number > 0
             THEN Issue(g, "get_block_prev",
                        get_block_call(ToString(PrevBlockNumber(block))))
             ELSE get_network_analytics_result(g)

\* after w3.eth.get_block(latest_block['number'] - 1)
AfterPrevBlock(f, block) ==
  get_network_analytics_result(
    [f EXCEPT !.prev_block = block,
              !.block_time = f.latest_block.timestamp - block.timestamp])

\* ------------------------------------------------------------------------
\* Actions
\* ------------------------------------------------------------------------
Init ==
  /\ w3 \in {"client", "None"}
  /\ OVER_PROTOCOL_RPC = "https://rpc.overprotocol.com"
  /\ CHAIN_ID = 54176
  /\ status = [r \in Reqs |-> "idle"]
  /\ cur = NoFrame
  /\ chain \in {<<b>> : b \in Blocks(0, 1000)}

LoopFree == \A q \in Reqs : status[q] # "running"

\* the handler of r moves to frame f; a response frees the loop and the slot
Step(r, f) ==
  /\ cur' = f
  /\ status' = [status EXCEPT ![r] = IF f.pc = "done" THEN "idle" ELSE "running"]
  /\ UNCHANGED <<w3, OVER_PROTOCOL_RPC, CHAIN_ID, chain>>

At(r, site) == status[r] = "running" /\ cur.id = r /\ cur.pc = site /\ Pending(cur)

\* an HTTP request reaches the server
Arrive(r) ==
  /\ status[r] = "idle"
  /\ status' = [status EXCEPT ![r] = "arrived"]
  /\ UNCHANGED <<w3, OVER_PROTOCOL_RPC, CHAIN_ID, cur, chain>>

\* the event loop runs the handler of an arrived request
Start(r) ==
  /\ status[r] = "arrived"
  /\ LoopFree
  /\ \E op \in Ops : \E body \in Bodies(op) : Step(r, Enter(Fresh(r, op, body)))

\* w3.is_connected() answers
ProbeReturns(r) ==
  /\ At(r, "is_connected")
  /\ \E connected \in BOOLEAN :
        Step(r, AfterProbe([Settle(cur, "ok", "") EXCEPT
                               !.probe = IF connected THEN "connected" ELSE "disconnected"],
                           connected))

\* w3.eth.block_number answers
BlockNumberReturns(r) ==
  /\ At(r, "block_number")
  /\ Step(r, Issue([Settle(cur, "ok", "") EXCEPT !.latest_block_number = Len(chain) - 1],
                   "gas_price", gas_price_call))

\* w3.eth.gas_price answers
GasPriceReturns(r) ==
  /\ At(r, "gas_price")
  /\ \E p \in GasPrices :
        Step(r, AfterGasPrice([Settle(cur, "ok", "") EXCEPT !.gas_price = p]))

\* w3.eth.get_balance answers
GetBalanceReturns(r) ==
  /\ At(r, "get_balance")
  /\ \E b \in Balances :
        Step(r, Issue([Settle(cur, "ok", "") EXCEPT !.balance_wei = b],
                      "get_block_latest", get_block_call("latest")))

\* w3.eth.get_block('latest') answers
GetBlockLatestReturns(r) ==
  /\ At(r, "get_block_latest")
  /\ Step(r, AfterLatestBlock(Settle(cur, "ok", ""), chain[Len(chain)]))

\* w3.eth.get_block(number) answers
GetBlockPrevReturns(r) ==
  /\ At(r, "get_block_prev")
  /\ PrevBlockNumber(cur.latest_block) \in 0..(Len(chain) - 1)
  /\ Step(r, AfterPrevBlock(Settle(cur, "ok", ""),
                            chain[PrevBlockNumber(cur.latest_block) + 1]))

\* w3.eth.estimate_gas answers
EstimateGasReturns(r) ==
  /\ At(r, "estimate_gas")
  /\ \E g \in GasEstimates :
        Step(r, Issue([Settle(cur, "ok", "") EXCEPT !.gas_estimate = g],
                      "gas_price", gas_price_call))

\* a remote data call raises
CallRaises(r) ==
  /\ \E site \in DataSites : At(r, site)
  /\ \E e \in RpcErrors : Step(r, OnRaise(cur, e))

\* the remote node never answers a call (no timeout is configured)
CallHangs(r) ==
  /\ status[r] = "running" /\ cur.id = r /\ Pending(cur)
  /\ cur' = Settle(cur, "hang", "")
  /\ UNCHANGED <<w3, OVER_PROTOCOL_RPC, CHAIN_ID, status, chain>>

\* the remote chain grows by a block
Mine ==
  /\ Len(chain) < MaxChain
  /\ \E b \in Blocks(Len(chain), chain[Len(chain)].timestamp) : chain' = Append(chain, b)
  /\ UNCHANGED <<w3, OVER_PROTOCOL_RPC, CHAIN_ID, status, cur>>

Next ==
  \/ \E r \in Reqs : Arrive(r)
  \/ \E r \in Reqs : Start(r)
  \/ \E r \in Reqs : ProbeReturns(r)
  \/ \E r \in Reqs : BlockNumberReturns(r)
  \/ \E r \in Reqs : GasPriceReturns(r)
  \/ \E r \in Reqs : GetBalanceReturns(r)
  \/ \E r \in Reqs : GetBlockLatestReturns(r)
  \/ \E r \in Reqs : GetBlockPrevReturns(r)
  \/ \E r \in Reqs : EstimateGasReturns(r)
  \/ \E r \in Reqs : CallRaises(r)
  \/ \E r \in Reqs : CallHangs(r)
  \/ Mine

Spec == Init /\ [][Next]_vars

\* ------------------------------------------------------------------------
\* Properties
\* ------------------------------------------------------------------------
\* the frame is that of a request that has been answered
Done == cur.id \in Reqs /\ cur.pc = "done"

WellFormedAddresses == {AddrLower, AddrChecksum}
MalformedAddresses == Addresses \ WellFormedAddresses
UnparseableAmounts == {AmtWord}

DataCalls(f) == {i \in 1..Len(f.calls) : f.calls[i].method # "is_connected"}

ReadOnlyMethods == {"is_connected", "eth.block_number", "eth.gas_price",
                    "eth.get_balance", "eth.get_block", "eth.estimate_gas"}

MalformedRequest(f) ==
  \/ f.op = "check_balance" /\ f.body.address \in MalformedAddresses
  \/ f.op = "estimate_gas" /\ (\/ f.body.from_address \in MalformedAddresses
                               \/ f.body.to_address \in MalformedAddresses)

\* C1: a balance-check or gas-estimate request with a malformed address that
\* has passed the connectivity guard ends with status 400 and has issued no
\* data call to the remote node.
C1_MalformedAddressIs400 ==
  (Done /\ cur.probe = "connected" /\ MalformedRequest(cur))
     => (cur.response.status = 400 /\ DataCalls(cur) = {})

\* C2: when the handle is unset or its probe reports disconnected, every
\* handler but health_check ends with status 503 and has issued no data call,
\* whatever the request body is.
C2_Disconnected503 ==
  (cur.id \in Reqs /\ cur.op # "health_check"
     /\ (w3 = "None" \/ cur.probe = "disconnected"))
     => (cur.pc = "done" /\ cur.response.status = 503
         /\ cur.response.content = NoContent /\ DataCalls(cur) = {})

C2_Witness ==
  /\ Done /\ cur.op = "estimate_gas" /\ cur.probe = "disconnected"
  /\ cur.body.from_address \in MalformedAddresses /\ cur.body.amount = AmtWord
  /\ cur.response.status = 503

\* C3: a gas-estimate request with two well-formed addresses and an amount
\* that does not parse as a decimal ends with status 400, not 500.
C3_UnparseableAmountIs400 ==
  (Done /\ cur.op = "estimate_gas" /\ cur.probe = "connected"
     /\ cur.body.from_address \in WellFormedAddresses
     /\ cur.body.to_address \in WellFormedAddresses
     /\ cur.body.amount \in UnparseableAmounts)
     => cur.response.status = 400

\* C4: health_check never ends in an error: it answers "healthy" with chain
\* id 54176, and over_protocol_connected is true exactly when the handle is
\* set and its probe reports connected.
C4_HealthNeverFails ==
  (Done /\ cur.op = "health_check")
     => /\ cur.response.status = 200
        /\ cur.response.content.status = "healthy"
        /\ cur.response.content.chain_id = 54176
        /\ cur.response.content.over_protocol_connected
              = (w3 = "client" /\ cur.probe = "connected")

C4_Witness ==
  /\ Done /\ cur.op = "health_check" /\ w3 = "client" /\ cur.probe = "disconnected"
  /\ cur.response.content.over_protocol_connected = FALSE

\* C5: within a request no remote call is issued twice; a call that raises is
\* the request's last call and the request ends with status 500 carrying the
\* failure's message and no success field; a success response has no failed
\* call behind it.
C5_NoRetries ==
  cur.id \in Reqs =>
    /\ \A i, j \in 1..Len(cur.calls) :
          (i < j /\ cur.calls[i].method = cur.calls[j].method)
             => cur.calls[i].arg # cur.calls[j].arg
    /\ \A i \in 1..Len(cur.calls) :
          cur.calls[i].outcome = "raise"
             => /\ i = Len(cur.calls)
                /\ cur.pc = "done"
                /\ cur.response = HTTPException(500, cur.calls[i].error)
    /\ cur.response.status = 200
          => \A i \in 1..Len(cur.calls) : cur.calls[i].outcome = "ok"
    /\ (cur.pc = "done" /\ cur.response.status # 200)
          => cur.response.content = NoContent

C5_Witness ==
  /\ Done /\ Len(cur.calls) >= 3
  /\ cur.calls[Len(cur.calls)].outcome = "raise"
  /\ cur.response.status = 500
  /\ cur.response.detail = "execution reverted"

\* C6: no request blocks on another in-flight request: while one request waits
\* on a remote call that never returns, another request that has arrived can
\* still be run.
C6_NoRequestBlocksAnother ==
  \A r \in Reqs : \A q \in Reqs :
    (r # q /\ status[r] = "running" /\ cur.id = r /\ Len(cur.calls) > 0
       /\ cur.calls[Len(cur.calls)].outcome = "hang"
       /\ status[q] = "arrived")
      => ENABLED Start(q)

\* C7: a successful gas estimate returns the conversion of
\* gas_estimate * gas_price + amount as total cost and of
\* gas_estimate * gas_price as transaction cost, their difference is the
\* requested amount, and the gas price comes from one eth.gas_price call.
C7_GasCosts ==
  (Done /\ cur.op = "estimate_gas" /\ cur.response.status = 200)
     => LET g == cur.response.content.gas_estimate
            p == cur.gas_price
            a == to_wei(cur.body.amount, "ether").value
            c == cur.response.content
        IN  /\ g >= 0 /\ p >= 0 /\ a >= 0
            /\ c.gas_price_gwei = from_wei(p, "gwei")
            /\ c.total_cost_over = from_wei(g * p + a, "ether")
            /\ c.transaction_cost_over = from_wei(g * p, "ether")
            /\ DecSub(c.total_cost_over, c.transaction_cost_over) = from_wei(a, "ether")
            /\ Cardinality({i \in 1..Len(cur.calls) :
                               cur.calls[i].method = "eth.gas_price"}) = 1

C7_Witness ==
  /\ Done /\ cur.op = "estimate_gas" /\ cur.response.status = 200
  /\ cur.gas_price > 0 /\ cur.amount_wei > 0
  /\ cur.response.content.total_cost_over # cur.response.content.transaction_cost_over

\* C8: network analytics whose block fetches all answered returns
\* gas_used / gas_limit * 100 when the latest block's gas limit is positive,
\* and ends with status 500 and no success field when the gas limit is 0.
C8_GasUtilization ==
  (Done /\ cur.op = "get_network_analytics" /\ cur.latest_block # NoBlock
     /\ \A i \in 1..Len(cur.calls) : cur.calls[i].outcome = "ok")
     => LET b == chain[cur.latest_block.number + 1]
        IN  IF b.gasLimit > 0
              THEN /\ cur.response.status = 200
                   /\ cur.response.content.gas_utilization_percent.den > 0
                   /\ cur.response.content.gas_utilization_percent.num * b.gasLimit
                        = b.gasUsed * 100 * cur.response.content.gas_utilization_percent.den
              ELSE /\ cur.response.status = 500
                   /\ cur.response.detail = "division by zero"
                   /\ cur.response.content = NoContent

C8_Witness ==
  /\ Done /\ cur.op = "get_network_analytics"
  /\ cur.latest_block # NoBlock /\ cur.latest_block.gasLimit = 0
  /\ cur.prev_block # NoBlock
  /\ cur.response.status = 500

\* C9: no step changes the handle, the RPC URL or the chain id, and every
\* call issued to the remote node is a read-only query.
C9_ReadOnly ==
  [][/\ w3' = w3
     /\ OVER_PROTOCOL_RPC' = OVER_PROTOCOL_RPC
     /\ CHAIN_ID' = CHAIN_ID
     /\ \A i \in 1..Len(cur'.calls) : cur'.calls[i].method \in ReadOnlyMethods]_vars

C9_Witness ==
  /\ Done /\ cur.op = "estimate_gas" /\ cur.response.status = 200
  /\ w3 = "client" /\ CHAIN_ID = 54176
  /\ \E i \in 1..Len(cur.calls) : cur.calls[i].method = "eth.estimate_gas"

\* C10: in a successful network-analytics response with latest block N, the
\* block time is timestamp(N) - timestamp(N - 1), block N - 1 having been asked
\* by its number; for N = 0 no preceding block is fetched and the value is 0.
C10_BlockTime ==
  (Done /\ cur.op = "get_network_analytics" /\ cur.response.status = 200)
     => LET c == cur.response.content
            N == cur.response.content.latest_block_number
            fetches == {i \in 1..Len(cur.calls) : cur.calls[i].method = "eth.get_block"}
        IN  /\ c.latest_block_timestamp = chain[N + 1].timestamp
            /\ IF N > 0
                 THEN /\ c.average_block_time_seconds
                           = chain[N + 1].timestamp - chain[N].timestamp
                      /\ \E i \in fetches : cur.calls[i].arg = <<ToString(N - 1)>>
                      /\ Cardinality(fetches) = 2
                 ELSE /\ c.average_block_time_seconds = 0
                      /\ Cardinality(fetches) = 1

\* the chain grew by a block between the two fetches
C10_Witness ==
  /\ Done /\ cur.op = "get_network_analytics" /\ cur.response.status = 200
  /\ cur.response.content.latest_block_number = 1
  /\ Len(chain) = 3
  /\ chain[3].timestamp - chain[2].timestamp
        # cur.response.content.average_block_time_seconds

====
